---------------------------- MODULE Spec2Model ----------------------------
(***************************************************************************)
(* A model of keep-to-pdf (src/index.js): the slug generator, the note     *)
(* parser, the templater, the processed ledger and the main loop.          *)
(*                                                                         *)
(* Strings are sequences of lexemes.  A lexeme is one character ("a", " ", *)
(* "\n", "#") or one of the fixed words the code's regular expressions and *)
(* templates treat as a unit ("Source:", "source:", "./keep/", ".json",    *)
(* "----", "Labels:").                                                     *)
(***************************************************************************)
EXTENDS Naturals, Sequences, FiniteSets

VARIABLES
    file,        \* ./processed.txt: Absent, or its contents
    generated,   \* the files that exist under ./generated/
    pc,          \* where main is
    processed,   \* main's `processed` array
    count,       \* main's `count`
    notes,       \* main's `notes` array
    i,           \* main's loop index (1-based)
    note,        \* main's `note` (result of openNote)
    pnote,       \* main's `pnote` (result of parseNote)
    tpl,         \* main's `tpl` (result of notePdfTpl)
    hist,        \* history of the run, read only by the properties
    fx           \* the function under test of the function specifications

vars == <<file, generated, pc, processed, count, notes, i, note, pnote, tpl, hist, fx>>

(***************************************************************************)
(* Bounds.                                                                 *)
(***************************************************************************)
MaxRuns == 2
MaxTitle == 4
MaxBody == 5
MaxFileLen == 4

(***************************************************************************)
(* String primitives (JavaScript semantics).                               *)
(***************************************************************************)
NL == "\n"

\* the strings over alphabet A of length at most n
StrUpTo(A, n) == UNION {[1..k -> A] : k \in 0..n}

\* Array.prototype.includes
Includes(arr, x) == \E k \in 1..Len(arr) : arr[k] = x

\* the number of entries of arr equal to x
Occurrences(arr, x) == Cardinality({k \in 1..Len(arr) : arr[k] = x})

\* the set of entries of arr
Entries(arr) == {arr[k] : k \in 1..Len(arr)}

\* String.prototype.split(sep) for a one-lexeme separator: "" splits to [""]
RECURSIVE Split(_, _)
Split(s, sep) ==
    IF \A k \in 1..Len(s) : s[k] # sep
    THEN <<s>>
    ELSE LET k == CHOOSE j \in 1..Len(s) : s[j] = sep /\ \A m \in 1..(j-1) : s[m] # sep
         IN  <<SubSeq(s, 1, k-1)>> \o Split(SubSeq(s, k+1, Len(s)), sep)

\* Array.prototype.join(sep): [] joins to ""
RECURSIVE Join(_, _)
Join(arr, sep) ==
    IF Len(arr) = 0 THEN <<>>
    ELSE IF Len(arr) = 1 THEN arr[1]
    ELSE arr[1] \o sep \o Join(Tail(arr), sep)

\* Array.prototype.slice(0, n)
Slice0(arr, n) == SubSeq(arr, 1, IF Len(arr) < n THEN Len(arr) ELSE n)

\* \s of a regular expression
IsWs(c) == c \in {" ", "\t", NL}

\* [a-zA-Z0-9_ ] of toSlug's first expression
SlugKeep(c) == c \in {"a", "b", "Z", "7", "_", " "}

(***************************************************************************)
(* toSlug (src/index.js 14-16).                                            *)
(***************************************************************************)
\* .replace(/[^a-zA-Z0-9_ ]/g, '')
RECURSIVE RemoveNonSlug(_)
RemoveNonSlug(s) ==
    IF Len(s) = 0 THEN <<>>
    ELSE (IF SlugKeep(Head(s)) THEN <<Head(s)>> ELSE <<>>) \o RemoveNonSlug(Tail(s))

\* .replace(/\s+/g, "_")
RECURSIVE WsRunsToUnderscore(_)
WsRunsToUnderscore(s) ==
    IF Len(s) = 0 THEN <<>>
    ELSE IF IsWs(Head(s))
         THEN IF Len(s) > 1 /\ IsWs(s[2])
              THEN WsRunsToUnderscore(Tail(s))
              ELSE <<"_">> \o WsRunsToUnderscore(Tail(s))
         ELSE <<Head(s)>> \o WsRunsToUnderscore(Tail(s))

\* mutant: the first replace is left out
toSlugUnfiltered(title) == WsRunsToUnderscore(title)

toSlug(title) == WsRunsToUnderscore(RemoveNonSlug(title))


(***************************************************************************)
(* Paths.  glob("./keep/*.json") returns "./keep/<name>.json".             *)
(***************************************************************************)
KeepPath(name) == <<"./keep/">> \o name \o <<".json">>

\* path.basename(npath).replace(".json", ""): drop the directory, then the
\* first occurrence of ".json"
RECURSIVE RemoveFirst(_, _)
RemoveFirst(s, w) ==
    IF Len(s) = 0 THEN <<>>
    ELSE IF Head(s) = w THEN Tail(s)
    ELSE <<Head(s)>> \o RemoveFirst(Tail(s), w)

Basename(npath) == IF Len(npath) > 0 /\ Head(npath) = "./keep/" THEN Tail(npath) ELSE npath

(***************************************************************************)
(* parseNote (src/index.js 47-82).                                         *)
(* A raw note is [has, title, textContent, annotations, labels]: `has` is  *)
(* the set of fields the JSON object has; annotations holds the url of     *)
(* each entry and labels the name of each entry.                           *)
(***************************************************************************)
IsSourceWord(c) == c \in {"Source:", "source:"}

\* /Source:\s+(?<path>.*)/i matches at k: the word, then at least one \s
SourceMatchAt(s, k) == IsSourceWord(s[k]) /\ k + 1 <= Len(s) /\ IsWs(s[k+1])

SourceMatches(s) == \E k \in 1..Len(s) : SourceMatchAt(s, k)

\* the leftmost match: [start, pathStart, end]; \s+ is greedy (and takes line
\* breaks), .* runs to the next line break or the end of the string
SourceMatch(s) ==
    LET k == CHOOSE j \in 1..Len(s) : SourceMatchAt(s, j) /\ \A m \in 1..(j-1) : ~SourceMatchAt(s, m)
        w == CHOOSE j \in (k+1)..Len(s) :
                 /\ \A m \in (k+1)..j : IsWs(s[m])
                 /\ (j = Len(s) \/ ~IsWs(s[j+1]))
        e == CHOOSE j \in w..Len(s) :
                 /\ \A m \in (w+1)..j : s[m] # NL
                 /\ (j = Len(s) \/ s[j+1] = NL)
    IN  [start |-> k, pathStart |-> w + 1, end |-> e]

\* source.groups.path
SourcePath(s) == LET m == SourceMatch(s) IN SubSeq(s, m.pathStart, m.end)

\* noteContent.replace(/Source:\s+(.*)/i, "")
StripSource(s) ==
    IF SourceMatches(s)
    THEN LET m == SourceMatch(s) IN SubSeq(s, 1, m.start - 1) \o SubSeq(s, m.end + 1, Len(s))
    ELSE s

\* noteContent.split("\n").slice(0, 3).join().match(/# (.*)/)
HasHeading(content) ==
    LET j == Join(Slice0(Split(content, NL), 3), <<",">>)
    IN  \E k \in 1..Len(j) : j[k] = "#" /\ k + 1 <= Len(j) /\ j[k+1] = " "

CommaSpace == <<",", " ">>
NA == <<"N", "/", "A">>

noteTitleOf(npath, n) ==
    IF "title" \in n.has /\ n.title # <<>> THEN n.title
    ELSE RemoveFirst(Basename(npath), ".json")

noteSourceOf(n) ==
    IF SourceMatches(n.textContent)
    THEN SourcePath(n.textContent)
    ELSE IF "annotations" \in n.has THEN Join(n.annotations, CommaSpace) ELSE NA

noteContentOf(n) ==
    IF SourceMatches(n.textContent) THEN StripSource(n.textContent) ELSE n.textContent

noteHeadingOf(npath, n) ==
    IF HasHeading(noteContentOf(n)) THEN [own |-> TRUE, text |-> <<>>]
    ELSE [own |-> FALSE, text |-> noteTitleOf(npath, n)]

noteLabelsOf(n) == Join(IF "labels" \in n.has THEN n.labels ELSE <<>>, CommaSpace)

\* note.textContent undefined: noteContent.match throws a TypeError
parseNote(npath, n) ==
    IF "textContent" \notin n.has THEN [throws |-> TRUE]
    ELSE [throws   |-> FALSE,
          title    |-> noteTitleOf(npath, n),
          heading  |-> noteHeadingOf(npath, n),
          content  |-> noteContentOf(n),
          source   |-> noteSourceOf(n),
          labels   |-> noteLabelsOf(n),
          filename |-> toSlug(noteTitleOf(npath, n))]

(***************************************************************************)
(* notePdfTpl (src/index.js 113-119).                                      *)
(***************************************************************************)
notePdfTpl(p) ==
    (IF ~p.heading.own THEN <<"#", " ">> \o p.heading.text \o <<NL, NL>> ELSE <<>>)
    \o p.content \o <<NL, NL, "----", NL, "Source:", " ">> \o p.source
    \o <<NL, NL, "Labels:", " ">> \o p.labels

(***************************************************************************)
(* The processed ledger (src/index.js 125-142).                            *)
(***************************************************************************)
Absent == <<"<absent>">>

\* getProcessed
getProcessed(f) == IF f = Absent THEN <<>> ELSE Split(f, NL)

\* what updateProcessed writes once its promise has resolved
updateProcessed(arr) == Join(arr, <<NL>>)

(***************************************************************************)
(* The environment of main: the files glob can find under ./keep/, in      *)
(* glob's (sorted) order, and what a note file can hold.                   *)
(***************************************************************************)
KeepFiles == <<KeepPath(<<"a", " ", "b">>), KeepPath(<<"a">>), KeepPath(<<"b">>)>>

\* the files of KeepFiles whose index is in S, in order
RECURSIVE Pick(_, _)
Pick(S, k) ==
    IF k > Len(KeepFiles) THEN <<>>
    ELSE (IF k \in S THEN <<KeepFiles[k]>> ELSE <<>>) \o Pick(S, k + 1)

Globs == {Pick(S, 1) : S \in SUBSET (1..Len(KeepFiles))}

RawNote(h, t, c, a, l) == [has |-> h, title |-> t, textContent |-> c, annotations |-> a, labels |-> l]

DiskNotes ==
    { RawNote({"title", "textContent"}, <<"a", "\t", "b">>, <<"x", NL, "Source:", " ", "x">>, <<>>, <<>>),
      RawNote({"textContent", "labels"}, <<>>, <<"#", " ", "x">>, <<>>, <<<<"a">>, <<"b">>>>),
      RawNote({"title"}, <<"a">>, <<>>, <<>>, <<>>) }

NoNote == RawNote({}, <<>>, <<>>, <<>>, <<>>)
NoPnote == [throws |-> TRUE]

PdfOf(p) == [name |-> p.filename, ext |-> "pdf"]
MdOf(p) == [name |-> p.filename, ext |-> "md"]

Pipeline == <<"openNote", "parseNote", "notePdfTpl", "noteToPdf", "noteSaveToMd">>

NoFx == [st |-> "off"]

InitHist(f) ==
    [run |-> 0, fresh |-> (f = Absent), loaded |-> <<>>, calls |-> <<>>, log |-> {},
     visited |-> {}, okRun |-> {}, everOk |-> {}, written |-> {}, added |-> {},
     saveCalled |-> FALSE, reported |-> 0]

\* a ledger an earlier run left behind
InitFiles == {Absent, KeepFiles[2], KeepFiles[2] \o <<NL>> \o KeepFiles[2]}

Init ==
    /\ file \in InitFiles
    /\ generated = {}
    /\ pc = "start"
    /\ processed = <<>>
    /\ count = 0
    /\ notes = <<>>
    /\ i = 1
    /\ note = NoNote
    /\ pnote = NoPnote
    /\ tpl = <<>>
    /\ hist = InitHist(file)
    /\ fx = NoFx

npath == notes[i]

Called(fn) == [hist EXCEPT !.calls = @ \o <<fn>>, !.log = @ \cup {[fn |-> fn, path |-> npath]}]

(***************************************************************************)
(* main (src/index.js 148-182).                                            *)
(***************************************************************************)
\* line 150: a run starts; const processed = await getProcessed()
GetProcessed ==
    /\ pc \in {"start", "exited", "crashed"}
    /\ hist.run < MaxRuns
    /\ processed' = getProcessed(file)
    /\ pc' = "getNotes"
    /\ count' = 0 /\ notes' = <<>> /\ i' = 1
    /\ note' = NoNote /\ pnote' = NoPnote /\ tpl' = <<>>
    /\ hist' = [hist EXCEPT !.run = @ + 1, !.loaded = getProcessed(file), !.calls = <<>>,
                            !.log = {}, !.visited = {}, !.okRun = {}, !.written = {},
                            !.added = {}, !.saveCalled = FALSE, !.reported = 0]
    /\ UNCHANGED <<file, generated, fx>>

\* lines 153-155: let count = 0; const notes = await getNotes(); i = 0
GetNotes ==
    /\ pc = "getNotes"
    /\ \E g \in Globs : notes' = g
    /\ count' = 0
    /\ i' = 1
    /\ pc' = "loop"
    /\ UNCHANGED <<file, generated, processed, note, pnote, tpl, hist, fx>>

\* lines 24-26: glob reports an error, getNotes rejects and main ends there
GetNotesFail ==
    /\ pc = "getNotes"
    /\ pc' = "crashed"
    /\ UNCHANGED <<file, generated, processed, count, notes, i, note, pnote, tpl, hist, fx>>

\* mutant: no catch block, the failure ends main
CatchMissing ==
    /\ pc' = "crashed"
    /\ i' = i
    /\ UNCHANGED <<processed, count>>

\* lines 170-172 and the loop's i += 1: the catch block logs and the loop goes on
Catch ==
    /\ pc' = "loop"
    /\ i' = i + 1
    /\ UNCHANGED <<processed, count>>

\* mutant: a skipped file is counted
SkipCounted ==
    /\ pc = "loop" /\ i <= Len(notes)
    /\ Includes(processed, npath)
    /\ i' = i + 1
    /\ count' = count + 1
    /\ hist' = [hist EXCEPT !.calls = <<>>, !.visited = @ \cup {i}]
    /\ UNCHANGED <<file, generated, pc, processed, notes, note, pnote, tpl, fx>>

\* lines 157, 173-175: the path is in processed: log "Skipping"
Skip ==
    /\ pc = "loop" /\ i <= Len(notes)
    /\ Includes(processed, npath)
    /\ i' = i + 1
    /\ hist' = [hist EXCEPT !.calls = <<>>, !.visited = @ \cup {i}]
    /\ UNCHANGED <<file, generated, pc, processed, count, notes, note, pnote, tpl, fx>>

\* lines 157-162: the path is new; openNote reads and parses the file
OpenNoteOk ==
    /\ pc = "loop" /\ i <= Len(notes)
    /\ ~Includes(processed, npath)
    /\ \E n \in DiskNotes : note' = n
    /\ pc' = "parseNote"
    /\ hist' = [Called("openNote") EXCEPT !.calls = <<"openNote">>, !.visited = @ \cup {i}]
    /\ UNCHANGED <<file, generated, processed, count, notes, i, pnote, tpl, fx>>

\* lines 37-38: readFile rejects or JSON.parse throws
OpenNoteFail ==
    /\ pc = "loop" /\ i <= Len(notes)
    /\ ~Includes(processed, npath)
    /\ Catch
    /\ hist' = [Called("openNote") EXCEPT !.calls = <<"openNote">>, !.visited = @ \cup {i}]
    /\ UNCHANGED <<file, generated, notes, note, pnote, tpl, fx>>

\* line 163
ParseNoteOk ==
    /\ pc = "parseNote"
    /\ ~parseNote(npath, note).throws
    /\ pnote' = parseNote(npath, note)
    /\ pc' = "notePdfTpl"
    /\ hist' = Called("parseNote")
    /\ UNCHANGED <<file, generated, processed, count, notes, i, note, tpl, fx>>

\* line 163: parseNote throws
ParseNoteThrows ==
    /\ pc = "parseNote"
    /\ parseNote(npath, note).throws
    /\ Catch
    /\ hist' = Called("parseNote")
    /\ UNCHANGED <<file, generated, notes, note, pnote, tpl, fx>>

\* line 164
NotePdfTpl ==
    /\ pc = "notePdfTpl"
    /\ tpl' = notePdfTpl(pnote)
    /\ pc' = "noteToPdf"
    /\ hist' = Called("notePdfTpl")
    /\ UNCHANGED <<file, generated, processed, count, notes, i, note, pnote, fx>>

\* line 165: mdToPdf writes ./generated/<filename>.pdf
NoteToPdfOk ==
    /\ pc = "noteToPdf"
    /\ generated' = generated \cup {PdfOf(pnote)}
    /\ pc' = "noteSaveToMd"
    /\ hist' = [Called("noteToPdf") EXCEPT !.written = @ \cup {PdfOf(pnote)}]
    /\ UNCHANGED <<file, processed, count, notes, i, note, pnote, tpl, fx>>

\* line 165: mdToPdf rejects
NoteToPdfFail ==
    /\ pc = "noteToPdf"
    /\ Catch
    /\ hist' = Called("noteToPdf")
    /\ UNCHANGED <<file, generated, notes, note, pnote, tpl, fx>>

\* mutant: the write is not awaited, main goes on before the file is written
NoteSaveToMdNotAwaited ==
    /\ pc = "noteSaveToMd"
    /\ pc' = "push"
    /\ hist' = Called("noteSaveToMd")
    /\ UNCHANGED <<file, generated, processed, count, notes, i, note, pnote, tpl, fx>>

\* line 166: fs.writeFile writes ./generated/<filename>.md
NoteSaveToMdOk ==
    /\ pc = "noteSaveToMd"
    /\ generated' = generated \cup {MdOf(pnote)}
    /\ pc' = "push"
    /\ hist' = [Called("noteSaveToMd") EXCEPT !.written = @ \cup {MdOf(pnote)}]
    /\ UNCHANGED <<file, processed, count, notes, i, note, pnote, tpl, fx>>

\* line 166: fs.writeFile rejects
NoteSaveToMdFail ==
    /\ pc = "noteSaveToMd"
    /\ Catch
    /\ hist' = Called("noteSaveToMd")
    /\ UNCHANGED <<file, generated, notes, note, pnote, tpl, fx>>

\* mutant: the counter is not incremented
PushUncounted ==
    /\ pc = "push"
    /\ processed' = Append(processed, npath)
    /\ i' = i + 1
    /\ pc' = "loop"
    /\ hist' = [hist EXCEPT !.okRun = @ \cup {npath}, !.everOk = @ \cup {npath},
                            !.added = @ \cup {[path |-> npath, name |-> pnote.filename]}]
    /\ UNCHANGED <<file, generated, count, notes, note, pnote, tpl, fx>>

\* lines 168-169 and the loop's i += 1
Push ==
    /\ pc = "push"
    /\ processed' = Append(processed, npath)
    /\ count' = count + 1
    /\ i' = i + 1
    /\ pc' = "loop"
    /\ hist' = [hist EXCEPT !.okRun = @ \cup {npath}, !.everOk = @ \cup {npath},
                            !.added = @ \cup {[path |-> npath, name |-> pnote.filename]}]
    /\ UNCHANGED <<file, generated, notes, note, pnote, tpl, fx>>

\* lines 141-142, 179-181: updateProcessed(processed) is called and not awaited,
\* and process.exit(0) follows in the same turn of the event loop.  fs.writeFile
\* opens the file (flag "w": create or truncate) on the thread pool and writes
\* only after the open has come back to JavaScript; the process may end before
\* the open, after the open, or (a runtime that writes in one request) after
\* the write.
ExitOutcomes(old, arr) == {old, <<>>, updateProcessed(arr)}

SaveAndExit ==
    /\ pc = "loop" /\ i > Len(notes)
    /\ \E f \in ExitOutcomes(file, processed) : file' = f
    /\ pc' = "exited"
    /\ hist' = [hist EXCEPT !.saveCalled = TRUE, !.reported = count]
    /\ UNCHANGED <<generated, processed, count, notes, i, note, pnote, tpl, fx>>

Next ==
    \/ GetProcessed
    \/ GetNotes
    \/ GetNotesFail
    \/ Skip
    \/ OpenNoteOk
    \/ OpenNoteFail
    \/ ParseNoteOk
    \/ ParseNoteThrows
    \/ NotePdfTpl
    \/ NoteToPdfOk
    \/ NoteToPdfFail
    \/ NoteSaveToMdOk
    \/ NoteSaveToMdFail
    \/ Push
    \/ SaveAndExit

Spec == Init /\ [][Next]_vars

(***************************************************************************)
(* The functions on their own: each specification below draws the inputs   *)
(* of one function from a bounded set and applies the function.            *)
(***************************************************************************)
MainOff ==
    /\ generated = {} /\ pc = "off" /\ processed = <<>> /\ count = 0 /\ notes = <<>>
    /\ i = 1 /\ note = NoNote /\ pnote = NoPnote /\ tpl = <<>> /\ hist = InitHist(Absent)

MainVars == <<generated, pc, processed, count, notes, i, note, pnote, tpl, hist>>

\* ---- toSlug
SlugChars == {"a", "7", "_", " ", "\t", "-"}

InitSlug ==
    /\ MainOff /\ file = Absent
    /\ fx \in {[st |-> "in", title |-> t, slug |-> <<>>, again |-> <<>>] : t \in StrUpTo(SlugChars, MaxTitle)}

SlugApply ==
    /\ fx.st = "in"
    /\ fx' = [fx EXCEPT !.st = "slug", !.slug = toSlug(fx.title)]
    /\ UNCHANGED <<file, MainVars>>

SlugAgain ==
    /\ fx.st = "slug"
    /\ fx' = [fx EXCEPT !.st = "reslug", !.again = toSlug(fx.slug)]
    /\ UNCHANGED <<file, MainVars>>

NextSlug == SlugApply \/ SlugAgain

SpecSlug == InitSlug /\ [][NextSlug]_vars

\* ---- parseNote followed by notePdfTpl
BodyChars == {"Source:", "source:", " ", NL, "x"}

AnnotationChoices ==
    { [has |-> {"textContent"}, urls |-> <<>>],
      [has |-> {"textContent", "annotations"}, urls |-> <<>>],
      [has |-> {"textContent", "annotations"}, urls |-> <<<<"u">>>>],
      [has |-> {"textContent", "annotations"}, urls |-> <<<<"u">>, <<"v">>>>] }

InitParse ==
    /\ MainOff /\ file = Absent
    /\ fx \in {[st |-> "in", npath |-> KeepFiles[2],
                note |-> RawNote(a.has, <<>>, b, a.urls, <<>>),
                pnote |-> NoPnote, tpl |-> <<>>] :
               b \in StrUpTo(BodyChars, MaxBody), a \in AnnotationChoices}

ParseApply ==
    /\ fx.st = "in"
    /\ fx' = [fx EXCEPT !.st = "parsed", !.pnote = parseNote(fx.npath, fx.note),
                        !.tpl = notePdfTpl(parseNote(fx.npath, fx.note))]
    /\ UNCHANGED <<file, MainVars>>

NextParse == ParseApply

SpecParse == InitParse /\ [][NextParse]_vars

\* ---- getProcessed and updateProcessed, each awaited: load, save, load, save, load
LedgerChars == {"a", "b", NL}

InitLedger ==
    /\ MainOff
    /\ file \in {Absent} \cup StrUpTo(LedgerChars, MaxFileLen)
    /\ fx = [st |-> "ledger", k |-> 0, first |-> file, orig |-> <<>>, cur |-> <<>>]

LedgerLoad ==
    /\ fx.st = "ledger" /\ fx.k \in {0, 2, 4}
    /\ fx' = [fx EXCEPT !.k = @ + 1, !.cur = getProcessed(file),
                        !.orig = IF fx.k = 0 THEN getProcessed(file) ELSE @]
    /\ UNCHANGED <<file, MainVars>>

LedgerSave ==
    /\ fx.st = "ledger" /\ fx.k \in {1, 3}
    /\ file' = updateProcessed(fx.cur)
    /\ fx' = [fx EXCEPT !.k = @ + 1]
    /\ UNCHANGED MainVars

NextLedger == LedgerLoad \/ LedgerSave

SpecLedger == InitLedger /\ [][NextLedger]_vars

(***************************************************************************)
(* Properties of the functions.                                            *)
(***************************************************************************)
\* [A-Za-z0-9_]
WordChar(c) == c \in {"a", "b", "Z", "7", "_"}

Underscores(s) == Cardinality({k \in 1..Len(s) : s[k] = "_"})

\* the maximal runs of whitespace of s
WsRuns(s) == Cardinality({k \in 1..Len(s) : IsWs(s[k]) /\ (k = Len(s) \/ ~IsWs(s[k+1]))})

\* C9: toSlug(x) holds only characters of [A-Za-z0-9_]; where x holds nothing
\* toSlug removes, each run of whitespace of x has become one underscore; and
\* toSlug(toSlug(x)) = toSlug(x).
C9_SlugCharsetIdempotent ==
    /\ fx.st \in {"slug", "reslug"} =>
          /\ \A k \in 1..Len(fx.slug) : WordChar(fx.slug[k])
          /\ (\A k \in 1..Len(fx.title) : SlugKeep(fx.title[k])) =>
                /\ Underscores(fx.slug) = Underscores(fx.title) + WsRuns(fx.title)
                /\ Len(fx.slug) + Cardinality({k \in 1..Len(fx.title) : IsWs(fx.title[k])})
                      = Len(fx.title) + WsRuns(fx.title)
    /\ fx.st = "reslug" => fx.again = fx.slug

\* C9 witness: a title with a symbol, a tab and a run of two spaces has been
\* slugged twice
C9_Witness ==
    /\ fx.st = "reslug"
    /\ \E k \in 1..Len(fx.title) : fx.title[k] = "-"
    /\ \E k \in 1..Len(fx.title) : fx.title[k] = "\t"
    /\ \E k \in 1..(Len(fx.title) - 1) : fx.title[k] = " " /\ fx.title[k+1] = " "
    /\ fx.slug # <<>>

\* the text after position k up to the end of k's line
RestOfLine(s, k) ==
    LET e == CHOOSE j \in k..Len(s) :
                 /\ \A m \in (k+1)..j : s[m] # NL
                 /\ (j = Len(s) \/ s[j+1] = NL)
    IN  SubSeq(s, k + 1, e)

RECURSIVE TrimLeft(_)
TrimLeft(s) == IF Len(s) > 0 /\ Head(s) \in {" ", "\t"} THEN TrimLeft(Tail(s)) ELSE s

\* the text that trails the "Source:" the parser found, on that line
TrailingText(s) == TrimLeft(RestOfLine(s, SourceMatch(s).start))

\* C7: if the body has a "Source:" line (in any case) the source is the text
\* trailing "Source:" on that line; otherwise, with an annotations field, the
\* urls joined with ", "; otherwise "N/A".
C7_SourcePrecedence ==
    fx.st = "parsed" =>
        LET b == fx.note.textContent
        IN  IF SourceMatches(b) THEN fx.pnote.source = TrailingText(b)
            ELSE IF "annotations" \in fx.note.has
                 THEN fx.pnote.source = Join(fx.note.annotations, CommaSpace)
                 ELSE fx.pnote.source = NA

\* C8: whenever a "Source:" line is found, the source is the text trailing it
\* on that same line, and the content returned no longer has a "Source:" line.
C8_SourceStripped ==
    (fx.st = "parsed" /\ SourceMatches(fx.note.textContent)) =>
        /\ fx.pnote.source = TrailingText(fx.note.textContent)
        /\ ~SourceMatches(fx.pnote.content)

\* C6: load, save, load, save, reload: the set reloaded is the set first
\* loaded, no entry occurs more often than before (or more than once, if it
\* is new), and a missing file loads as the empty list.
C6_LedgerRoundTrip ==
    /\ (fx.st = "ledger" /\ fx.k >= 1 /\ fx.first = Absent) => fx.orig = <<>>
    /\ (fx.st = "ledger" /\ fx.k = 5) =>
          /\ Entries(fx.cur) = Entries(fx.orig)
          /\ \A x \in Entries(fx.cur) : Occurrences(fx.cur, x) <= Occurrences(fx.orig, x)

(***************************************************************************)
(* Properties of main.                                                     *)
(***************************************************************************)
InLoop == pc = "loop" /\ i <= Len(notes)

Stages == {"parseNote", "notePdfTpl", "noteToPdf", "noteSaveToMd", "push"}

\* the paths some stage was invoked for in this run
Touched == {c.path : c \in hist.log}

\* C1: a file whose path was loaded from processed.txt is skipped: the step
\* that visits it changes nothing but the loop index, and no stage is ever
\* invoked for it.
C1_SkipIsNoOp ==
    /\ [][(InLoop /\ Includes(hist.loaded, notes[i])) =>
             /\ i' = i + 1 /\ pc' = "loop"
             /\ hist'.log = hist.log /\ hist'.written = hist.written
             /\ UNCHANGED <<file, generated, processed, count, notes>>]_vars
    /\ [](\A c \in hist.log : ~Includes(hist.loaded, c.path))

\* C1 witness: a run has passed a file of the loaded ledger, after it has
\* processed another file
C1_Witness ==
    /\ pc = "loop" /\ i = 3 /\ Len(notes) >= 2
    /\ Includes(hist.loaded, notes[2])
    /\ hist.okRun = {notes[1]}

\* where main is after the stage at pc has succeeded
AfterStage(p) ==
    CASE p = "loop" -> "parseNote"
      [] p = "parseNote" -> "notePdfTpl"
      [] p = "notePdfTpl" -> "noteToPdf"
      [] p = "noteToPdf" -> "noteSaveToMd"
      [] p = "noteSaveToMd" -> "push"
      [] OTHER -> p

\* a step in which the stage at pc fails: main is at a stage of a file that is
\* not skipped, and the step does not take it to the next stage
FailStep ==
    /\ pc \in {"loop", "parseNote", "notePdfTpl", "noteToPdf", "noteSaveToMd"}
    /\ i <= Len(notes)
    /\ ~(pc = "loop" /\ Includes(processed, notes[i]))
    /\ pc' # AfterStage(pc)

\* C2: a stage that fails leaves the ledger working set and the counter as
\* they were and moves the loop to the next file; and a run that has ended
\* has visited every enumerated file, called the ledger save and reported.
C2_FailureIsolated ==
    /\ [][FailStep =>
             /\ pc' = "loop" /\ i' = i + 1
             /\ UNCHANGED <<processed, count, notes>>]_vars
    /\ [](pc = "exited" =>
             /\ hist.visited = 1..Len(notes)
             /\ i = Len(notes) + 1
             /\ hist.saveCalled
             /\ hist.reported = count
             /\ \A p \in Touched \ hist.okRun : ~Includes(processed, p))

\* C2 witness: a run has ended in which the first file failed at the PDF
\* stage and a later file was processed
C2_Witness ==
    /\ pc = "exited" /\ Len(notes) = 3
    /\ [fn |-> "noteToPdf", path |-> notes[1]] \in hist.log
    /\ notes[1] \notin hist.okRun
    /\ notes[3] \in hist.okRun

\* C3: once a run has ended, processed.txt holds the working set, one path
\* per line.
C3_LedgerPersisted ==
    pc = "exited" => (file # Absent /\ file = updateProcessed(processed))

\* C4: from an absent processed.txt, after any number of completed runs every
\* path ever processed is in the persisted ledger exactly once.
C4_LedgerInvariant ==
    (hist.fresh /\ pc = "exited") =>
        \A p \in hist.everOk : file # Absent /\ Occurrences(getProcessed(file), p) = 1

\* C5: the count reported is the number of files processed in the run, which
\* is the number of paths the run added to the working set.
C5_CountIsNewlyProcessed ==
    /\ pc \in Stages \cup {"loop", "exited"} =>
          /\ count = Cardinality(hist.okRun)
          /\ count + Len(hist.loaded) = Len(processed)
    /\ pc = "exited" => hist.reported = count

\* C5 witness: a run over three files has ended with one skipped, one failed
\* and one processed
C5_Witness ==
    /\ pc = "exited" /\ Len(notes) = 3 /\ hist.reported = 1
    /\ \E k \in 1..3 : Includes(hist.loaded, notes[k])
    /\ \E k \in 1..3 : notes[k] \in Touched \ hist.okRun

\* C10: the stages of a file run in the order of Pipeline, all for the current
\* file; a path is pushed only with all five stages done, and every path
\* pushed in the run has its .pdf and .md written in the run; a file's first
\* stage starts only at the head of the loop.
C10_PipelineOrder ==
    /\ [](/\ \A k \in 1..Len(hist.calls) : k <= Len(Pipeline) /\ hist.calls[k] = Pipeline[k]
          /\ (pc \in Stages /\ Len(hist.calls) < Len(Pipeline)) => pc = Pipeline[Len(hist.calls) + 1]
          /\ pc = "push" => hist.calls = Pipeline
          /\ \A a \in hist.added :
                /\ [name |-> a.name, ext |-> "pdf"] \in hist.written
                /\ [name |-> a.name, ext |-> "md"] \in hist.written
                /\ Includes(processed, a.path)
          /\ Len(processed) = Len(hist.loaded) + Cardinality(hist.added))
    /\ [][/\ (processed' # processed /\ pc \in Stages) =>
                /\ pc = "push" /\ hist.calls = Pipeline
                /\ processed' = Append(processed, notes[i])
          /\ (hist'.log # hist.log /\ pc \in Stages \cup {"loop"}) =>
                /\ \E fn \in Entries(Pipeline) : hist'.log = hist.log \cup {[fn |-> fn, path |-> notes[i]]}
                /\ notes' = notes
                /\ i' = i \/ pc' = "loop"
          /\ (i' # i /\ pc \in Stages \cup {"loop"}) => (i' = i + 1 /\ pc' = "loop")]_vars

\* C10 witness: the second file of a run has just been pushed after both of
\* its writes
C10_Witness ==
    /\ pc = "loop" /\ i = 3
    /\ hist.calls = Pipeline
    /\ Cardinality(hist.added) = 2
=============================================================================
